---- MODULE Spec2Model ----
(***************************************************************************)
(* Model of the backtest engine of app.py: compute_momentum_signal,        *)
(* make_weights (per_date) and backtest, lines 60-135.                     *)
(*                                                                         *)
(* Floating point values are modelled by exact rationals <<num, den>> in   *)
(* lowest terms with den > 0; NaN is the pair <<0, 0>>.  A panel is a      *)
(* function close[ticker][date]; the value 0 means "no row for this        *)
(* (date, ticker)".                                                        *)
(***************************************************************************)
EXTENDS Integers, Sequences, FiniteSets, TLC

\* ------------------------------------------------------------------ bounds
\* Number of dates of the price panel.
MaxDays == 4
\* Largest cross-section of one date handed to per_date on its own.
NNames == 4
\* Largest look-back window of a backtest.
MaxMomWin == 2

Dates == 1..MaxDays
\* The two tickers of a panel, in the order sort_values(["date","ticker"]) gives.
Tickers == {1, 2}
Names == 1..NNames

\* --------------------------------------------------------------- rationals
RECURSIVE GCD(_, _)
GCD(a, b) == IF b = 0 THEN a ELSE GCD(b, a % b)

AbsI(n) == IF n < 0 THEN -n ELSE n

NaN == <<0, 0>>
IsNaN(x) == x[2] = 0

\* n/d in lowest terms, d # 0
Rat(n, d) ==
  LET g == GCD(AbsI(n), AbsI(d))
      s == IF d < 0 THEN -1 ELSE 1
  IN  <<(s * n) \div g, (s * d) \div g>>

Zero == <<0, 1>>
One == <<1, 1>>
Half == <<1, 2>>

Add(x, y) == IF IsNaN(x) \/ IsNaN(y) THEN NaN
             ELSE Rat(x[1] * y[2] + y[1] * x[2], x[2] * y[2])
Neg(x) == IF IsNaN(x) THEN NaN ELSE <<-x[1], x[2]>>
Sub(x, y) == Add(x, Neg(y))
Mul(x, y) == IF IsNaN(x) \/ IsNaN(y) THEN NaN
             ELSE Rat(x[1] * y[1], x[2] * y[2])
\* x / y; the code never divides by zero on a panel of positive prices
Div(x, y) == IF IsNaN(x) \/ IsNaN(y) \/ y[1] = 0 THEN NaN
             ELSE Rat(x[1] * y[2], x[2] * y[1])
AbsR(x) == IF IsNaN(x) THEN NaN ELSE <<AbsI(x[1]), x[2]>>
\* comparisons with NaN are false, as in IEEE arithmetic
Lt(x, y) == ~IsNaN(x) /\ ~IsNaN(y) /\ x[1] * y[2] < y[1] * x[2]
Le(x, y) == ~IsNaN(x) /\ ~IsNaN(y) /\ x[1] * y[2] <= y[1] * x[2]
Gt(x, y) == Lt(y, x)
\* Series.fillna(0.0)
fillna(x) == IF IsNaN(x) THEN Zero ELSE x

\* A Series or column held as a table of values: a function with its values computed
Table(f) == f @@ <<>>

\* Series.sum() over the index set S (NaN entries are skipped, as pandas does)
RECURSIVE SumOver(_, _)
SumOver(S, f) ==
  IF S = {} THEN Zero
  ELSE LET i == CHOOSE j \in S : TRUE
       IN  Add(fillna(f[i]), SumOver(S \ {i}, f))

\* Series.clip(lower, upper)
clip(x, lower, upper) ==
  IF IsNaN(x) THEN NaN
  ELSE IF Lt(x, lower) THEN lower
  ELSE IF Gt(x, upper) THEN upper
  ELSE x

\* int(math.floor(x)) for x >= 0
floor(x) == x[1] \div x[2]

\* ------------------------------------------------------------ make_weights
\* All orders of the set S, as sequences.
RECURSIVE Perms(_)
Perms(S) ==
  IF S = {} THEN {<<>>}
  ELSE UNION {{<<x>> \o s : s \in Perms(S \ {x})} : x \in S}

\* mutant: the rows with an undefined signal are not dropped
dropna_keepall(rows, sigf) == rows

\* g = group.dropna(subset=["sig"]): the rows of the group with a defined signal
dropna(rows, sigf) == {i \in rows : ~IsNaN(sigf[i])}

\* g.sort_values("sig"): the rows in ascending order of signal, NaN last.  The
\* default sort kind is not stable, so rows with equal signals may come in any order:
\* tie is a sequence of all row labels that decides between equal signals.
Before(i, j, sigf, tie) ==
  \/ Lt(sigf[i], sigf[j])
  \/ ~IsNaN(sigf[i]) /\ IsNaN(sigf[j])
  \/ /\ sigf[i] = sigf[j]
     /\ \E a, b \in 1..Len(tie) : a < b /\ tie[a] = i /\ tie[b] = j

sort_values(rows, sigf, tie) ==
  CHOOSE s \in Perms(rows) :
    \A a, b \in 1..Cardinality(rows) : a < b => Before(s[a], s[b], sigf, tie)

\* every order g.sort_values("sig") may give
SortedOrders(rows, sigf) ==
  {s \in Perms(rows) :
     \A a, b \in 1..Cardinality(rows) :
       a < b => (Le(sigf[s[a]], sigf[s[b]]) \/ IsNaN(sigf[s[b]]))}

\* k = max(1, int(math.floor(n * quantile)))
bucket_k(n, q) ==
  LET f == floor(Mul(<<n, 1>>, q)) IN IF f > 1 THEN f ELSE 1

\* shorts = g.iloc[:k] (lowest k), longs = g.iloc[-k:] (highest k); k >= 1
iloc_head(s, k) == {s[a] : a \in {b \in 1..Len(s) : b <= k}}
iloc_tail(s, k) == {s[a] : a \in {b \in 1..Len(s) : b > Len(s) - k}}

\* w = 0.0 everywhere; w.loc[longs] = 1/len(longs); then w.loc[shorts] = -1/len(shorts)
assign_buckets(rows, lg, sh) ==
  [i \in rows |->
     IF i \in sh THEN Rat(-1, Cardinality(sh))
     ELSE IF i \in lg THEN Rat(1, Cardinality(lg))
     ELSE Zero]

\* w = w.clip(lower=-max_pos, upper=max_pos)
clip_weights(x, mp) ==
  Table([i \in DOMAIN x |-> clip(x[i], Neg(mp), mp)])

\* pos = w[w > 0].sum(); neg = -w[w < 0].sum(); scale = sum if sum > 0 else 1.0
\* w[w > 0] = w[w > 0] / scale_pos * 0.5
\* w[w < 0] = w[w < 0] / scale_neg * -0.5
renormalize(x) ==
  LET P == {i \in DOMAIN x : Gt(x[i], Zero)}
      pos == SumOver(P, x)
      scale_pos == IF Gt(pos, Zero) THEN pos ELSE One
      w1 == Table([i \in DOMAIN x |->
                     IF i \in P THEN Mul(Div(x[i], scale_pos), Half) ELSE x[i]])
      N == {i \in DOMAIN x : Lt(w1[i], Zero)}
      neg == Neg(SumOver({i \in DOMAIN x : Lt(x[i], Zero)}, x))
      scale_neg == IF Gt(neg, Zero) THEN neg ELSE One
  IN  [i \in DOMAIN x |->
         IF i \in N THEN Mul(Div(w1[i], scale_neg), Neg(Half)) ELSE w1[i]]

\* per_date(group): the weights of one date's cross-section
per_date(rows, sigf, q, mp, tie) ==
  LET kept == dropna(rows, sigf)
  IN  IF kept = {} THEN [i \in rows |-> Zero]
      ELSE LET k == bucket_k(Cardinality(kept), q)
               s == sort_values(kept, sigf, tie)
           IN  renormalize(clip_weights(
                 Table(assign_buckets(rows, iloc_tail(s, k), iloc_head(s, k))), mp))

\* ---------------------------------------------------------------- backtest
\* Rows of a panel: (ticker, date) pairs with a close price.
RowsOf(p) == {r \in Tickers \X Dates : p[r[1]][r[2]] # 0}
DatesOf(p) == {d \in Dates : \E t \in Tickers : p[t][d] # 0}
\* the tickers of the group of date d in groupby("date")
GroupOf(p, d) == {t \in Tickers : p[t][d] # 0}

\* dff = df[date >= start][date <= end]; start / end 0 stand for None ("if start:")
filter(p, s, e) ==
  Table([t \in Tickers |-> Table([d \in Dates |->
     IF (s # 0 /\ d < s) \/ (e # 0 /\ d > e) THEN 0 ELSE p[t][d]])])

\* groupby("ticker")[col].shift(n): the date of the n-th previous observation of
\* ticker t before date d, or 0 when the ticker has fewer than n earlier rows
shift_date(p, t, d, n) ==
  IF n = 0 THEN d
  ELSE LET obs == {e \in Dates : p[t][e] # 0}
           c == {e \in obs : e < d /\ Cardinality({x \in obs : e <= x /\ x < d}) = n}
       IN  IF c = {} THEN 0 ELSE CHOOSE e \in c : TRUE

\* groupby("ticker")["close"].shift(n) at row (t, d)
shift_close(p, t, d, n) ==
  LET e == shift_date(p, t, d, n) IN IF e = 0 THEN NaN ELSE <<p[t][e], 1>>

\* mutant: the gross return close / previous close, without the "- 1"
pct_change_gross(p) ==
  [r \in RowsOf(p) |-> Div(<<p[r[1]][r[2]], 1>>, shift_close(p, r[1], r[2], 1))]

\* dff.groupby("ticker")["close"].pct_change()
pct_change(p) ==
  [r \in RowsOf(p) |->
     Sub(Div(<<p[r[1]][r[2]], 1>>, shift_close(p, r[1], r[2], 1)), One)]

\* mutant: a look-back that is one observation short, close.shift(gap+mom_win-1)
compute_momentum_signal_short(p, mw, gp) ==
  [r \in RowsOf(p) |->
     LET num == shift_close(p, r[1], r[2], gp)
         den == shift_close(p, r[1], r[2], gp + mw - 1)
     IN  Sub(Div(num, den), One)]

\* momentum = close.shift(gap) / close.shift(gap+mom_win) - 1
compute_momentum_signal(p, mw, gp) ==
  [r \in RowsOf(p) |->
     LET num == shift_close(p, r[1], r[2], gp)
         den == shift_close(p, r[1], r[2], gp + mw)
     IN  Sub(Div(num, den), One)]

\* work.groupby("date").apply(per_date): one call of per_date for each date
make_weights(p, signal, q, mp, tieb) ==
  LET byDate == Table([d \in DatesOf(p) |->
                   Table(per_date(GroupOf(p, d), [t \in GroupOf(p, d) |-> signal[<<t, d>>]],
                                  q, mp, tieb))])
  IN  [r \in RowsOf(p) |-> byDate[r[2]][r[1]]]

\* mutant: the weights are not shifted, today's weight meets today's return
lag_weights_nolag(p, wcol) == [r \in RowsOf(p) |-> fillna(wcol[r])]

\* dff.groupby("ticker")["w"].shift(1).fillna(0.0)
lag_weights(p, wcol) ==
  [r \in RowsOf(p) |->
     LET e == shift_date(p, r[1], r[2], 1)
     IN  IF e = 0 THEN Zero ELSE fillna(wcol[<<r[1], e>>])]

\* dw = (w.fillna(0.0) - w_lag).abs(); turn_by_date = groupby("date")["dw"].sum().clip(lower=0.0)
turnover(p, wcol, wlag) ==
  [d \in DatesOf(p) |->
     LET dw == [t \in GroupOf(p, d) |-> AbsR(Sub(fillna(wcol[<<t, d>>]), wlag[<<t, d>>]))]
         s == SumOver(GroupOf(p, d), dw)
     IN  IF Lt(s, Zero) THEN Zero ELSE s]

\* daily_ret = groupby("date").apply(lambda g: (g["w_lag"] * g["ret"].fillna(0.0)).sum())
portfolio_return(p, wlag, r) ==
  [d \in DatesOf(p) |->
     SumOver(GroupOf(p, d), [t \in GroupOf(p, d) |-> Mul(wlag[<<t, d>>], fillna(r[<<t, d>>]))])]

\* daily_cost = (tc_bps / 10000.0) * turn_by_date
cost_of(tc, turn) == [d \in DOMAIN turn |-> Mul(Rat(tc, 10000), turn[d])]

\* mutant: the cost is added to the return
pnl_of_plus(dr, dc) == [d \in DOMAIN dr |-> Add(dr[d], dc[d])]

\* daily_pnl = daily_ret - daily_cost
pnl_of(dr, dc) == [d \in DOMAIN dr |-> Sub(dr[d], dc[d])]

\* equity = (1.0 + daily_pnl.fillna(0.0)).cumprod()
RECURSIVE ProdOver(_, _)
ProdOver(S, f) ==
  IF S = {} THEN One
  ELSE LET i == CHOOSE j \in S : TRUE
       IN  Mul(Add(One, fillna(f[i])), ProdOver(S \ {i}, f))

cumprod(pnl) == [d \in DOMAIN pnl |-> ProdOver({e \in DOMAIN pnl : e <= d}, pnl)]

\* backtest(df, start, end, mom_win, gap, quantile, max_pos, tc_bps): every column
\* and series of one call, lines 107-135
backtest(p, s, e, mw, gp, q, mp, tc, tie) ==
  LET f == filter(p, s, e)
      r == Table(pct_change(f))
      sg == Table(compute_momentum_signal(f, mw, gp))
      wt == Table(make_weights(f, sg, q, mp, tie))
      wl == Table(lag_weights(f, wt))
      tn == Table(turnover(f, wt, wl))
      dr == Table(portfolio_return(f, wl, r))
      dc == Table(cost_of(tc, tn))
      pl == Table(pnl_of(dr, dc))
  IN  [dff |-> f, ret |-> r, sig |-> sg, w |-> wt, w_lag |-> wl, turn_by_date |-> tn,
       daily_ret |-> dr, daily_cost |-> dc, daily_pnl |-> pl, equity |-> cumprod(pl)]

\* ------------------------------------------------------------------- state
VARIABLES
  df, start, end, mom_win, gap, quantile, max_pos, tc_bps,  \* arguments of backtest
  pc,             \* the statement the computation has reached
  dff, ret, sig, w, w_lag, turn_by_date, daily_ret, daily_cost, daily_pnl, equity,
  group, gsig, g, shorts, longs, wv                         \* locals of per_date

inputs == <<df, start, end, mom_win, gap, quantile, max_pos, tc_bps>>
columns == <<dff, ret, sig, w, w_lag, turn_by_date, daily_ret, daily_cost, daily_pnl, equity>>
locals == <<group, gsig, g, shorts, longs, wv>>
vars == <<inputs, pc, columns, locals>>

Blank == <<>>

\* ------------------------------------------------------------------ inputs
Prices == {1, 2}
\* Ticker 1 has a row on every date, with any prices.  Ticker 2 is flat, moves with
\* ticker 1 or moves against it, and has a row on every date, or is listed from date 2
\* on, or misses date 3.
Paths(a) == {[d \in Dates |-> 1], a, [d \in Dates |-> 3 - a[d]]}
Listings(b) == {b, [b EXCEPT ![1] = 0], [b EXCEPT ![3] = 0]}
Panels ==
  UNION {{[t \in Tickers |-> IF t = 1 THEN a ELSE c] : c \in UNION {Listings(b) : b \in Paths(a)}}
           : a \in [Dates -> Prices]}

\* A = [100, 101, 102, 103], B = [100, 99, 98, 97]
ScenarioPanel == [t \in Tickers |-> [d \in Dates |-> IF t = 1 THEN 99 + d ELSE 101 - d]]

Gaps == {0, 1}

\* (start, end): no bound, a start bound, an end bound
Windows == {<<0, 0>>, <<2, 0>>, <<0, MaxDays - 1>>}

\* (quantile, max_pos, tc_bps)
Profiles == {<<Half, One, 0>>, <<(<<1, 5>>), (<<1, 50>>), 2500>>}
\* the tc_bps of the second backtest a run is compared with
TcBps == {2500, 5000}

Quantiles == {<<1, 5>>, <<1, 3>>, Half}
MaxPositions == {<<1, 50>>, <<1, 3>>, One}
SigVals == {NaN, <<-1, 1>>, Zero, One}

NoColumns ==
  /\ dff = Blank /\ ret = Blank /\ sig = Blank /\ w = Blank /\ w_lag = Blank
  /\ turn_by_date = Blank /\ daily_ret = Blank /\ daily_cost = Blank
  /\ daily_pnl = Blank /\ equity = Blank

NoLocals ==
  /\ group = {} /\ gsig = Blank /\ g = Blank /\ shorts = {} /\ longs = {} /\ wv = Blank

\* A call backtest(df, start, end, mom_win, gap, quantile, max_pos, tc_bps)
Init ==
  /\ \/ /\ df \in Panels
        /\ \E win \in Windows : start = win[1] /\ end = win[2]
        /\ mom_win \in 1..MaxMomWin
        /\ gap \in Gaps
        /\ \E pr \in Profiles : quantile = pr[1] /\ max_pos = pr[2] /\ tc_bps = pr[3]
     \/ /\ df = ScenarioPanel
        /\ start = 0 /\ end = 0
        /\ mom_win = 2 /\ gap = 0
        /\ quantile = Half /\ max_pos = One /\ tc_bps = 0
  /\ pc = "filter"
  /\ NoColumns
  /\ NoLocals

\* lines 107-112
Filter ==
  /\ pc = "filter"
  /\ dff' = filter(df, start, end)
  /\ pc' = "returns"
  /\ UNCHANGED <<inputs, ret, sig, w, w_lag, turn_by_date, daily_ret, daily_cost,
                 daily_pnl, equity, locals>>

\* line 115
Returns ==
  /\ pc = "returns"
  /\ ret' = pct_change(dff)
  /\ pc' = "signal"
  /\ UNCHANGED <<inputs, dff, sig, w, w_lag, turn_by_date, daily_ret, daily_cost,
                 daily_pnl, equity, locals>>

\* line 117
Signal ==
  /\ pc = "signal"
  /\ sig' = compute_momentum_signal(dff, mom_win, gap)
  /\ pc' = "weights"
  /\ UNCHANGED <<inputs, dff, ret, w, w_lag, turn_by_date, daily_ret, daily_cost,
                 daily_pnl, equity, locals>>

\* lines 119-120
Weights ==
  /\ pc = "weights"
  /\ \E tie \in Perms(Tickers) : w' = make_weights(dff, sig, quantile, max_pos, tie)
  /\ pc' = "simulate"
  /\ UNCHANGED <<inputs, dff, ret, sig, w_lag, turn_by_date, daily_ret, daily_cost,
                 daily_pnl, equity, locals>>

\* lines 123-133
Simulate ==
  /\ pc = "simulate"
  /\ w_lag' = lag_weights(dff, w)
  /\ turn_by_date' = turnover(dff, w, w_lag')
  /\ daily_ret' = portfolio_return(dff, w_lag', ret)
  /\ daily_cost' = cost_of(tc_bps, turn_by_date')
  /\ daily_pnl' = pnl_of(daily_ret', daily_cost')
  /\ pc' = "equity"
  /\ UNCHANGED <<inputs, dff, ret, sig, w, equity, locals>>

\* line 135
Equity ==
  /\ pc = "equity"
  /\ equity' = cumprod(daily_pnl)
  /\ pc' = "done"
  /\ UNCHANGED <<inputs, dff, ret, sig, w, w_lag, turn_by_date, daily_ret, daily_cost,
                 daily_pnl, locals>>

Next == Filter \/ Returns \/ Signal \/ Weights \/ Simulate \/ Equity

Spec == Init /\ [][Next]_vars

\* ------------------------------------------- per_date on one cross-section
\* One call per_date(group) of make_weights(df, signal, quantile, max_pos)
InitPerDate ==
  /\ \E n \in Names : group = 1..n /\ gsig \in [1..n -> SigVals]
  /\ quantile \in Quantiles
  /\ max_pos \in MaxPositions
  /\ pc = "dropna"
  /\ g = Blank /\ shorts = {} /\ longs = {} /\ wv = Blank
  /\ df = Blank /\ start = 0 /\ end = 0 /\ mom_win = 1 /\ gap = 0 /\ tc_bps = 0
  /\ NoColumns

frame == <<df, start, end, mom_win, gap, quantile, max_pos, tc_bps, columns, group, gsig>>

\* lines 73-75
PdDropna ==
  /\ pc = "dropna"
  /\ IF dropna(group, gsig) = {}
     THEN wv' = [i \in group |-> Zero] /\ pc' = "return"
     ELSE wv' = wv /\ pc' = "sort"
  /\ UNCHANGED <<frame, g, shorts, longs>>

\* lines 76-80
PdSort ==
  /\ pc = "sort"
  /\ LET k == bucket_k(Cardinality(dropna(group, gsig)), quantile)
     IN  /\ g' \in SortedOrders(dropna(group, gsig), gsig)
         /\ shorts' = iloc_head(g', k)
         /\ longs' = iloc_tail(g', k)
  /\ pc' = "assign"
  /\ UNCHANGED <<frame, wv>>

\* lines 81-85
PdAssign ==
  /\ pc = "assign"
  /\ wv' = assign_buckets(group, longs, shorts)
  /\ pc' = "clip"
  /\ UNCHANGED <<frame, g, shorts, longs>>

\* line 87
PdClip ==
  /\ pc = "clip"
  /\ wv' = clip_weights(wv, max_pos)
  /\ pc' = "renormalize"
  /\ UNCHANGED <<frame, g, shorts, longs>>

\* lines 89-95
PdRenormalize ==
  /\ pc = "renormalize"
  /\ wv' = renormalize(wv)
  /\ pc' = "return"
  /\ UNCHANGED <<frame, g, shorts, longs>>

NextPerDate == PdDropna \/ PdSort \/ PdAssign \/ PdClip \/ PdRenormalize

SpecPerDate == InitPerDate /\ [][NextPerDate]_vars

\* ============================================================== properties
Weighted == pc \in {"simulate", "equity", "done"}
Simulated == pc \in {"equity", "done"}
\* the tickers of date d with a defined signal
Eligible(d) == {t \in GroupOf(dff, d) : ~IsNaN(sig[<<t, d>>])}
WeightSum(d) == SumOver(GroupOf(dff, d), [t \in GroupOf(dff, d) |-> w[<<t, d>>]])
FirstDate == CHOOSE d \in DatesOf(dff) : \A e \in DatesOf(dff) : d <= e
LastDate == CHOOSE d \in DatesOf(dff) : \A e \in DatesOf(dff) : e <= d
\* the number of rows of ticker t before date d in the filtered panel
PriorObs(t, d) == Cardinality({e \in Dates : e < d /\ dff[t][e] # 0})
\* the date of the last row of ticker t before date d, or 0
PrevObs(t, d) ==
  IF PriorObs(t, d) = 0 THEN 0
  ELSE CHOOSE e \in Dates : /\ e < d /\ dff[t][e] # 0
                            /\ \A x \in Dates : (x < d /\ dff[t][x] # 0) => x <= e

\* C1: on every date of a backtest with at least two tickers with a defined signal
\* and a cap that does not bind (max_pos >= 1/k), the weights of the date sum to 0.
C1_DollarNeutral ==
  Weighted =>
    \A d \in DatesOf(dff) :
      (/\ Cardinality(Eligible(d)) >= 2
       /\ Le(Rat(1, bucket_k(Cardinality(Eligible(d)), quantile)), max_pos))
      => WeightSum(d) = Zero

IsScenario ==
  /\ df = ScenarioPanel /\ start = 0 /\ end = 0 /\ mom_win = 2 /\ gap = 0
  /\ quantile = Half /\ max_pos = One /\ tc_bps = 0

\* C2: in the scenario A = [100,101,102,103], B = [100,99,98,97], mom_win = 2, gap = 0,
\* quantile = 0.5, max_pos = 1, tc_bps = 0, the weights of the first two dates are 0,
\* from the third date on A has +0.5 and B has -0.5, and daily_pnl on the fourth date
\* is 0.5 * ret_A - 0.5 * ret_B.
C2_Scenario ==
  (IsScenario /\ pc = "done") =>
    /\ \A t \in Tickers : w[<<t, 1>>] = Zero /\ w[<<t, 2>>] = Zero
    /\ \A d \in {3, 4} : w[<<1, d>>] = Half /\ w[<<2, d>>] = Neg(Half)
    /\ daily_pnl[4] = Add(Mul(Half, Rat(1, 102)), Mul(Neg(Half), Rat(-1, 98)))

\* C3: the first point of the equity series is 1.0: on the first simulated date every
\* lagged weight, the turnover, the cost and daily_pnl are 0.
C3_EquityStartsAtOne ==
  /\ Simulated =>
       /\ \A t \in GroupOf(dff, FirstDate) : w_lag[<<t, FirstDate>>] = Zero
       /\ turn_by_date[FirstDate] = Zero
       /\ daily_cost[FirstDate] = Zero
       /\ daily_pnl[FirstDate] = Zero
  /\ pc = "done" => equity[FirstDate] = One

\* a run with a cost, a start bound and an equity that moves after the first date
C3_Witness ==
  /\ pc = "done" /\ tc_bps > 0 /\ start # 0
  /\ equity[FirstDate] = One
  /\ \E d \in DatesOf(dff) : equity[d] # One

ConstantPrices ==
  \A t \in Tickers : \A d, e \in Dates : (df[t][d] # 0 /\ df[t][e] # 0) => df[t][d] = df[t][e]

\* C4 as stated: with constant prices daily_pnl is 0 and equity is 1.0 on every date,
\* for any parameters, tc_bps > 0 included.
C4_ConstantPricesNoPnl ==
  (ConstantPrices /\ pc = "done") =>
    \A d \in DatesOf(dff) : daily_pnl[d] = Zero /\ equity[d] = One

\* C4 amended: with constant prices the raw return is 0 on every date and daily_pnl is
\* minus the cost, -(tc_bps / 10000) * turnover; with tc_bps = 0 daily_pnl is 0 and
\* equity is 1.0 on every date.
C4_ConstantPricesOnlyCost ==
  (ConstantPrices /\ pc = "done") =>
    \A d \in DatesOf(dff) :
      /\ daily_ret[d] = Zero
      /\ daily_pnl[d] = Neg(Mul(Rat(tc_bps, 10000), turn_by_date[d]))
      /\ Le(daily_pnl[d], Zero)
      /\ tc_bps = 0 => (daily_pnl[d] = Zero /\ equity[d] = One)

\* constant prices, no cost, and weights that have become non-zero
C4_Witness ==
  /\ ConstantPrices /\ pc = "done" /\ tc_bps = 0
  /\ \E r \in RowsOf(dff) : w[r] # Zero /\ r[2] < LastDate
  /\ \A d \in DatesOf(dff) : equity[d] = One

\* C5: every weight make_weights returns lies in [-max_pos, +max_pos].
C5_WeightsWithinCap ==
  pc = "return" => \A i \in group : Le(Neg(max_pos), wv[i]) /\ Le(wv[i], max_pos)

\* C6: a second backtest of the same panel with a larger tc_bps has, on every date, a
\* daily_pnl that is not larger; turnover is never negative.
C6_CostMonotone ==
  pc = "done" =>
    /\ \A d \in DatesOf(dff) : Le(Zero, turn_by_date[d])
    /\ \A tie \in Perms(Tickers) :
         make_weights(dff, sig, quantile, max_pos, tie) = w =>
           \A tc2 \in TcBps :
             LET b == backtest(df, start, end, mom_win, gap, quantile, max_pos, tc2, tie)
             IN  tc_bps <= tc2 =>
                   /\ b.turn_by_date = turn_by_date
                   /\ \A d \in DatesOf(dff) : Le(b.daily_pnl[d], daily_pnl[d])

\* a run whose daily_pnl on some date is strictly above that of the run with tc_bps = 5000
C6_Witness ==
  /\ pc = "done" /\ tc_bps = 2500
  /\ \E tie \in Perms(Tickers) : \E d \in DatesOf(dff) :
       LET b == backtest(df, start, end, mom_win, gap, quantile, max_pos, 5000, tie)
       IN  b.w = w /\ Lt(b.daily_pnl[d], daily_pnl[d])

\* C7: a cross-section with exactly one ticker with a defined signal gives k = 1, the
\* ticker in both buckets, and a final weight that is negative (the short assignment
\* is the last one applied).
C7_SingleTickerShort ==
  (pc = "return" /\ Cardinality(dropna(group, gsig)) = 1) =>
    /\ bucket_k(Cardinality(dropna(group, gsig)), quantile) = 1
    /\ shorts = dropna(group, gsig) /\ longs = dropna(group, gsig)
    /\ \A i \in dropna(group, gsig) : Lt(wv[i], Zero)

\* C8: after clipping and renormalizing, the positive weights of a date sum to +0.5 and
\* the negative ones to -0.5, a side being 0 only when it had no names; every ticker of
\* the short bucket that is not in the long bucket ends with a negative weight.
C8_SidesSumToHalf ==
  (pc = "return" /\ dropna(group, gsig) # {}) =>
    /\ SumOver({i \in group : Gt(wv[i], Zero)}, wv)
         = IF longs \ shorts # {} THEN Half ELSE Zero
    /\ SumOver({i \in group : Lt(wv[i], Zero)}, wv)
         = IF shorts # {} THEN Neg(Half) ELSE Zero
    /\ \A i \in shorts \ longs : Lt(wv[i], Zero)


\* the panel with every close after date t raised by one
Altered(p, t) ==
  Table([k \in Tickers |-> Table([d \in Dates |->
     IF d > t /\ p[k][d] # 0 THEN p[k][d] + 1 ELSE p[k][d]])])

\* the weight of ticker t at its last row before date d, 0 on its first row
PrevWeight(t, d) == IF PrevObs(t, d) = 0 THEN Zero ELSE w[<<t, PrevObs(t, d)>>]
\* the return of ticker t at date d, 0 on its first row
ReturnAt(t, d) ==
  IF PrevObs(t, d) = 0 THEN Zero
  ELSE Rat(dff[t][d] - dff[t][PrevObs(t, d)], dff[t][PrevObs(t, d)])

\* C9: the raw return of a date is the sum over the tickers of the date of (the weight
\* at the ticker's previous row, or 0) times (its return, or 0); daily_pnl and equity
\* up to a date t are the same in a backtest of the panel with the closes after t changed.
C9_NoLookAhead ==
  pc = "done" =>
    /\ \A d \in DatesOf(dff) :
         daily_ret[d] = SumOver(GroupOf(dff, d),
                          [t \in GroupOf(dff, d) |-> Mul(PrevWeight(t, d), ReturnAt(t, d))])
    /\ \A tie \in Perms(Tickers) :
         make_weights(dff, sig, quantile, max_pos, tie) = w =>
           \A t \in Dates \ {MaxDays} :
             LET b == backtest(Altered(df, t), start, end, mom_win, gap, quantile,
                               max_pos, tc_bps, tie)
             IN  \A d \in DatesOf(dff) :
                   d <= t => (b.daily_pnl[d] = daily_pnl[d] /\ b.equity[d] = equity[d])

\* a ticker that missed a date carries its weight over the gap into a non-zero return
C9_Witness ==
  /\ pc = "done"
  /\ \E r \in RowsOf(dff) :
       /\ PrevObs(r[1], r[2]) # 0 /\ PrevObs(r[1], r[2]) < r[2] - 1
       /\ PrevWeight(r[1], r[2]) # Zero
       /\ daily_ret[r[2]] # Zero
  /\ \E d \in DatesOf(dff) : d < LastDate /\ daily_pnl[d] # Zero

\* C10: a row of a ticker with fewer than gap + mom_win earlier rows in the filtered
\* panel has an undefined signal and the weight 0; every row with an undefined signal
\* has the weight 0.
C10_InsufficientHistory ==
  Weighted =>
    \A r \in RowsOf(dff) :
      /\ PriorObs(r[1], r[2]) < gap + mom_win => (IsNaN(sig[r]) /\ w[r] = Zero)
      /\ IsNaN(sig[r]) => w[r] = Zero

\* a date on which one ticker lacks history and the other one holds a position
C10_Witness ==
  /\ pc = "done"
  /\ \E d \in DatesOf(dff) : \E t1, t2 \in GroupOf(dff, d) :
       /\ PriorObs(t1, d) < gap + mom_win /\ IsNaN(sig[<<t1, d>>]) /\ w[<<t1, d>>] = Zero
       /\ ~IsNaN(sig[<<t2, d>>]) /\ w[<<t2, d>>] # Zero

====
